---------------------------- MODULE Spec2Model ----------------------------
(***************************************************************************)
(* A model of mitcircs.py, the Mitigating Circumstances tracker builder:   *)
(* the cell normaliser, the unit-code extractor, the response-block        *)
(* locator, the fill-in predicate, the record builder and the projection.  *)
(*                                                                         *)
(* Text is modelled as a sequence of one-character strings, so that the    *)
(* string operations of the source (strip, lower, slicing, startswith,     *)
(* substring search, join) are computed and not assumed.  Python's 0-based *)
(* positions are kept as offsets; a sequence position is offset + 1.       *)
(***************************************************************************)
EXTENDS Integers, Sequences, FiniteSets, TLC

VARIABLES
    call,             \* the pure function under test and its arguments
    result,           \* the value it returned
    returned,         \* whether it has returned
    pc,               \* where the run of main() stands
    qualtrics,        \* the table being processed
    header,           \* the question-text row split off the table
    Q_cols,           \* the located response blocks
    requests,         \* the StudentRequests built so far
    req,              \* the StudentRequest of the row being processed
    row_i,            \* offset of the row being processed
    key_i,            \* offset of the response block being processed
    division,         \* lines 701-702, the loop's locals
    first_iteration,
    check,            \* the message shown before exit(1)
    exc,              \* the exception that ended the run, if one did
    output            \* the table handed to the spreadsheet writer

fnvars == <<call, result, returned>>

mainvars == <<pc, qualtrics, header, Q_cols, requests, req, row_i, key_i,
              division, first_iteration, check, exc, output>>

vars == <<fnvars, mainvars>>

-----------------------------------------------------------------------------
(* Characters and the string primitives of Python the source relies on.    *)

UPPERCASE == {"A","B","C","D","E","F","G","H","I","J","K","L","M",
              "N","O","P","Q","R","S","T","U","V","W","X","Y","Z"}

DIGITS == {"0","1","2","3","4","5","6","7","8","9"}

WHITESPACE == {" ", "\n", "\t"}

Min(a, b) == IF a <= b THEN a ELSE b

Max(a, b) == IF a >= b THEN a ELSE b

SetMax(S) == CHOOSE x \in S : \A y \in S : y <= x

\* s[:n]
Slice(s, n) == SubSeq(s, 1, Min(n, Len(s)))

\* s[n:]
Drop(s, n) == SubSeq(s, n + 1, Len(s))

\* s.startswith(p)
StartsWith(s, p) == Len(p) <= Len(s) /\ SubSeq(s, 1, Len(p)) = p

\* sub in s
Contains(s, sub) ==
    \E i \in 0..(Len(s) - Len(sub)) : SubSeq(s, i + 1, i + Len(sub)) = sub

RECURSIVE LStrip(_)
LStrip(s) == IF s # <<>> /\ Head(s) \in WHITESPACE THEN LStrip(Tail(s)) ELSE s

RECURSIVE RStrip(_)
RStrip(s) ==
    IF s # <<>> /\ s[Len(s)] \in WHITESPACE
    THEN RStrip(SubSeq(s, 1, Len(s) - 1))
    ELSE s

\* str.strip()
Strip(s) == RStrip(LStrip(s))

LowerChar(c) ==
    CASE c = "A" -> "a" [] c = "B" -> "b" [] c = "C" -> "c" [] c = "D" -> "d"
      [] c = "E" -> "e" [] c = "F" -> "f" [] c = "G" -> "g" [] c = "H" -> "h"
      [] c = "I" -> "i" [] c = "J" -> "j" [] c = "K" -> "k" [] c = "L" -> "l"
      [] c = "M" -> "m" [] c = "N" -> "n" [] c = "O" -> "o" [] c = "P" -> "p"
      [] c = "Q" -> "q" [] c = "R" -> "r" [] c = "S" -> "s" [] c = "T" -> "t"
      [] c = "U" -> "u" [] c = "V" -> "v" [] c = "W" -> "w" [] c = "X" -> "x"
      [] c = "Y" -> "y" [] c = "Z" -> "z" [] OTHER -> c

\* str.lower()
Lower(s) == [i \in 1..Len(s) |-> LowerChar(s[i])]

\* The length of the run of characters of S that s starts with.
RECURSIVE RunLen(_, _)
RunLen(s, S) == IF s # <<>> /\ Head(s) \in S THEN 1 + RunLen(Tail(s), S) ELSE 0

RECURSIVE Spaces(_)
Spaces(n) == IF n = 0 THEN <<>> ELSE <<" ">> \o Spaces(n - 1)

-----------------------------------------------------------------------------
(* Cell values.  A cell of the loaded table is a float NaN (nothing was    *)
(* entered) or a text; None is the null a caller may hand to a function.   *)

NaN == [kind |-> "nan", text |-> <<>>]

None == [kind |-> "none", text |-> <<>>]

Text(s) == [kind |-> "str", text |-> s]

\* pandas.isna(cell)
isna(cell) == cell.kind \in {"nan", "none"}

\* str(cell)
str(cell) ==
    CASE cell.kind = "nan"  -> <<"n","a","n">>
      [] cell.kind = "none" -> <<"N","o","n","e">>
      [] OTHER              -> cell.text

NONE_GIVEN == <<"N","o","n","e"," ","g","i","v","e","n">>

DASH == <<"-">>

\* The string literal "nan" of line 150.
NAN_TEXT == <<"n","a","n">>

CellIsMissingLiteral(cell_in) == Lower(cell_in.text) = NAN_TEXT

\* Mutant: the comparison with "nan" made case-sensitive.
string_reformat_nan_case_sensitive(cell_in, empty_string) ==
    IF isna(cell_in)
       \/ cell_in.text = <<>>
       \/ cell_in.text = NAN_TEXT
    THEN empty_string
    ELSE cell_in.text

string_reformat_nan(cell_in, empty_string) ==
    IF isna(cell_in)
       \/ cell_in.text = <<>>
       \/ CellIsMissingLiteral(cell_in)
    THEN empty_string
    ELSE cell_in.text

-----------------------------------------------------------------------------
(* detect_return_unitcode.  The pattern is compiled from a triple-quoted   *)
(* string with no flags (lines 442-445), so the line breaks, the           *)
(* indentation and the '#' remarks of that string are literal text of the  *)
(* pattern and '^' only matches at offset 0 of the searched string.        *)

Lit(t) == [k |-> "lit", text |-> t, set |-> {}, lo |-> 0, hi |-> 0]

Bol == [k |-> "bol", text |-> <<>>, set |-> {}, lo |-> 0, hi |-> 0]

Class(S, lo, hi) == [k |-> "cls", text |-> <<>>, set |-> S, lo |-> lo, hi |-> hi]

PATTERN_LINE_1 == <<"\n">> \o Spaces(4)

PATTERN_LINE_2 ==
    Spaces(4) \o
    <<"#"," ","S","t","a","r","t","s"," ","w","i","t","h"," ","b","e","t","w","e","e","n"," ","1"," ","a","n","d"," ","5"," ","u","p","p","e","r","c","a","s","e"," ","l","e","t","t","e","r","s">> \o
    <<"\n">> \o Spaces(4)

PATTERN_LINE_3 ==
    Spaces(5) \o
    <<"#"," ","I","m","m","e","d","i","a","t","e","l","y"," ","f","o","l","l","o","w","e","d"," ","b","y"," ","b","e","t","w","e","e","n"," ","2"," ","a","n","d"," ","6"," ","d","i","g","i","t","s">> \o
    <<"\n">> \o Spaces(4)

\* re.compile(r"""...""") of lines 442-445, token by token.
pattern ==
    << Lit(PATTERN_LINE_1), Bol, Class(UPPERCASE, 1, 5), Lit(PATTERN_LINE_2),
       Class(DIGITS, 2, 6), Lit(PATTERN_LINE_3) >>

\* The offsets at which a match of items[i..] that starts at offset pos can end.
RECURSIVE MatchEnds(_, _, _, _)
MatchEnds(items, i, s, pos) ==
    IF i > Len(items) THEN {pos}
    ELSE LET it == items[i] IN
         CASE it.k = "lit" ->
                IF SubSeq(s, pos + 1, Min(pos + Len(it.text), Len(s))) = it.text
                THEN MatchEnds(items, i + 1, s, pos + Len(it.text))
                ELSE {}
           [] it.k = "bol" ->
                IF pos = 0 THEN MatchEnds(items, i + 1, s, pos) ELSE {}
           [] OTHER ->
                UNION { MatchEnds(items, i + 1, s, pos + n) :
                          n \in { m \in it.lo..it.hi :
                                    /\ pos + m <= Len(s)
                                    /\ \A j \in (pos + 1)..(pos + m) : s[j] \in it.set } }

\* re.search(pat, s): the leftmost start with a match; the quantifiers are
\* greedy and the classes of one pattern are disjoint, so the match taken
\* from a start is the longest one.  found = FALSE is Python's None.
re_search(pat, s) ==
    LET starts == { p \in 0..Len(s) : MatchEnds(pat, 1, s, p) # {} } IN
    IF starts = {}
    THEN [found |-> FALSE, start |-> 0, end |-> 0]
    ELSE LET p == CHOOSE x \in starts : \A y \in starts : x <= y
         IN  [found |-> TRUE, start |-> p, end |-> SetMax(MatchEnds(pat, 1, s, p))]

\* result.group(0)
group0(s, m) == SubSeq(s, m.start + 1, m.end)

\* Mutant: the salvage slice one character short.
detect_return_unitcode_slice8(string) ==
    LET stripped == Strip(string)
        res      == re_search(pattern, stripped)
    IN  IF ~res.found THEN Slice(stripped, 8) ELSE group0(stripped, res)

detect_return_unitcode(string) ==
    LET stripped == Strip(string)
        res      == re_search(pattern, stripped)
    IN  IF ~res.found THEN Slice(stripped, 9) ELSE group0(stripped, res)

-----------------------------------------------------------------------------
(* Column names (lines 40-48 and 94-110) and the tables keyed by them.     *)

COLNAME_SUFFIX_DIVISION == <<"_","1">>

COLNAME_SUFFIX_PROGRAMME == <<"_","2">>

COLNAME_SUFFIX_COURSEYEAR == <<"_","3">>

COLNAME_SUFFIX_UNITASSESSMENT == <<"_","4">>

COLNAME_SUFFIX_OTHERINFORMATION == <<"_","Q","3","7">>

COLNAME_SUFFIX_RESUBMISSION == <<"_","Q","1","6","5">>

COLNAME_SUFFIX_RESUB_FIRST == <<"_","1","_","T","E","X","T">>

COLNAME_SUFFIX_RESUB_SECOND == <<"_","3","_","T","E","X","T">>

COLNAME_SUFFIX_SUBSTATUS == <<"_","Q","1","6","3">>

COLNAME_PREFIX_DATESUBMITTED == <<"R","e","c","o","r","d","e","d","D","a","t","e">>

COLNAME_PREFIX_STUDENTNAME == <<"Q","1">>

COLNAME_PREFIX_EMAILADDRESS == <<"Q","3">>

COLNAME_PREFIX_STUDENTID == <<"Q","4">>

COLNAME_PREFIX_ISPOSTGRADORRES == <<"Q","1","5","0">>

COLNAME_PREFIX_SUPERVISCONTACT == <<"Q","1","5","2">>

COLNAME_PREFIX_TIER4_VISA == <<"Q","1","5","3">>

COLNAME_PREFIX_PROPOSEDDEADLINE == <<"Q","1","5","1">>

COLNAME_PREFIX_ADVISORNAME == <<"Q","1","7">>

COLNAME_PREFIX_MITIGATIONDETAIL == <<"Q","1","9">>

COLNAME_PREFIX_PERIODAFFECTED == <<"Q","2","0">>

COLNAME_PREFIX_LATEAPPLICATION == <<"Q","2","1">>

COLNAME_PREFIX_ASSESSMENTCOUNT == <<"Q","1","6","0">>

COLNAME_PREFIX_DASS_REGISTERED == <<"Q","2">>

\* The offset of each sub-question inside the cells of one response.
RESPONSE_COLUMN_INDICES ==
    COLNAME_SUFFIX_DIVISION :> 0 @@ COLNAME_SUFFIX_PROGRAMME :> 1
    @@ COLNAME_SUFFIX_COURSEYEAR :> 2 @@ COLNAME_SUFFIX_UNITASSESSMENT :> 3
    @@ COLNAME_SUFFIX_OTHERINFORMATION :> 4 @@ COLNAME_SUFFIX_RESUBMISSION :> 5
    @@ COLNAME_SUFFIX_RESUB_FIRST :> 6 @@ COLNAME_SUFFIX_RESUB_SECOND :> 7
    @@ COLNAME_SUFFIX_SUBSTATUS :> 8

\* Each message as the two names it quotes: the field it could not read and
\* the column name it expected.
COLUMN_KEY_ERROR_MESSAGES ==
    COLNAME_PREFIX_STUDENTID :> [field |-> "Student ID", column |-> <<"Q","4">>]
    @@ COLNAME_PREFIX_EMAILADDRESS :> [field |-> "Email Address", column |-> <<"Q","3">>]
    @@ COLNAME_PREFIX_DATESUBMITTED :> [field |-> "", column |-> <<>>]
    @@ COLNAME_PREFIX_ISPOSTGRADORRES :> [field |-> "Is Postgrad. or Research", column |-> <<"Q","1","5","0">>]
    @@ COLNAME_PREFIX_ASSESSMENTCOUNT :> [field |-> "Assessment Count", column |-> <<"Q","1","6","0">>]
    @@ COLNAME_PREFIX_MITIGATIONDETAIL :> [field |-> "Details of Mitigation", column |-> <<"Q","1","9">>]
    @@ COLNAME_PREFIX_PERIODAFFECTED :> [field |-> "Period Affected", column |-> <<"Q","2","0">>]
    @@ COLNAME_PREFIX_ADVISORNAME :> [field |-> "Advisor Name", column |-> <<"Q","1","7">>]
    @@ COLNAME_PREFIX_LATEAPPLICATION :> [field |-> "Application Outside of Deadline", column |-> <<"Q","2","1">>]
    @@ COLNAME_PREFIX_SUPERVISCONTACT :> [field |-> "Supervisor Spoken To", column |-> <<"Q","1","5","2">>]
    @@ COLNAME_PREFIX_TIER4_VISA :> [field |-> "On Tier 4 Visa?", column |-> <<"Q","1","5","3">>]
    @@ COLNAME_PREFIX_PROPOSEDDEADLINE :> [field |-> "Proposed New Submission Date", column |-> <<"Q","1","5","1">>]

\* str(number) for the numbers of range(1, response_max).
DigitChar(d) ==
    CASE d = 0 -> "0" [] d = 1 -> "1" [] d = 2 -> "2" [] d = 3 -> "3" [] d = 4 -> "4"
      [] d = 5 -> "5" [] d = 6 -> "6" [] d = 7 -> "7" [] d = 8 -> "8" [] OTHER -> "9"

RECURSIVE StrInt(_)
StrInt(n) == IF n < 10 THEN <<DigitChar(n)>> ELSE StrInt(n \div 10) \o <<DigitChar(n % 10)>>

-----------------------------------------------------------------------------
(* required_column_width: the width a column of cells needs when every     *)
(* line of a cell is shown on a line of its own.                           *)

\* The offset of the first c in s; Len(s) when there is none.
RECURSIVE Find(_, _)
Find(s, c) == IF s = <<>> \/ Head(s) = c THEN 0 ELSE 1 + Find(Tail(s), c)

\* s.split(c)
RECURSIVE split(_, _)
split(s, c) ==
    IF Find(s, c) = Len(s) THEN <<s>>
    ELSE <<SubSeq(s, 1, Find(s, c))>> \o split(Drop(s, Find(s, c) + 1), c)

\* max(lines, key = len): the first of the longest.
MaxByLen(lines) ==
    lines[CHOOSE i \in 1..Len(lines) :
            /\ \A j \in 1..Len(lines) : Len(lines[j]) <= Len(lines[i])
            /\ \A j \in 1..(i - 1) : Len(lines[j]) < Len(lines[i])]

\* The loop of lines 247-251 over cells[i..], from the maximum so far.
RECURSIVE ColumnWidthLoop(_, _, _)
ColumnWidthLoop(cells, i, cell_max) ==
    IF i > Len(cells) THEN cell_max
    ELSE LET lines    == split(cells[i], "\n")
             this_max == MaxByLen(lines)
         IN  ColumnWidthLoop(cells, i + 1,
                             IF Len(this_max) > cell_max THEN Len(this_max) ELSE cell_max)

\* Mutant: the cells are not split into lines.
required_column_width_whole_cell(cells) ==
    IF cells = <<>> THEN 0 ELSE SetMax({ Len(cells[i]) : i \in 1..Len(cells) })

\* Mutant: the width of the last cell wins.
required_column_width_last_cell(cells) ==
    IF cells = <<>> THEN 0 ELSE Len(MaxByLen(split(cells[Len(cells)], "\n")))

\* cells is dataframe[column].
required_column_width(cells) == ColumnWidthLoop(cells, 1, 0)

-----------------------------------------------------------------------------
(* The fill-in predicate.                                                  *)

MINIMUM_REQUIRED_RESPONSES == 4

\* Mutant: the minimum is not clamped to the number of cells.
minimum_responses_provided_unclamped(cells, minimum) ==
    LET N        == Len(cells)
        omitted  == Cardinality({ i \in 1..N : isna(cells[i]) })
        provided == Max(0, N - omitted)
    IN  provided >= minimum

\* Mutant: more than the minimum is asked for.
minimum_responses_provided_strict(cells, minimum) ==
    LET N        == Len(cells)
        clamped  == IF minimum > N THEN N ELSE minimum
        omitted  == Cardinality({ i \in 1..N : isna(cells[i]) })
        provided == Max(0, N - omitted)
    IN  provided > clamped

minimum_responses_provided(cells, minimum) ==
    LET N        == Len(cells)
        clamped  == IF minimum > N THEN N ELSE minimum
        omitted  == Cardinality({ i \in 1..N : isna(cells[i]) })
        provided == Max(0, N - omitted)
    IN  provided >= clamped

-----------------------------------------------------------------------------
(* The table.  A DataFrame is its column names and its rows; a row is the  *)
(* sequence of its cells, aligned with the column names.  Positions kept   *)
(* by the program (column indices, row labels) are Python's, from 0.       *)

\* row.iloc[i]
iloc(row, i) == row[i + 1]

HasColumn(columns, name) == \E i \in 1..Len(columns) : columns[i] = name

\* row[name]; the caller has checked HasColumn (a KeyError otherwise).
Lookup(columns, row, name) ==
    row[CHOOSE i \in 1..Len(columns) : columns[i] = name]

\* range(n)
Range(n) == [i \in 1..n |-> i - 1]

IMPORT_ID == <<"I","m","p","o","r","t","I","d">>

\* No row found: Python's None.
NO_INDEX == -1

row_containing(dataframe, string) ==
    LET rows == dataframe.rows
        \* A cell that is not text makes "string in value" raise, and the
        \* bare except skips the whole row.
        hit(i) == /\ \A j \in 1..Len(rows[i + 1]) : rows[i + 1][j].kind = "str"
                  /\ \E j \in 1..Len(rows[i + 1]) : Contains(rows[i + 1][j].text, string)
        hits == { i \in 0..(Len(rows) - 1) : hit(i) }
    IN  IF hits = {} THEN NO_INDEX ELSE SetMax(hits)

drop_row_by_string(dataframe, string) ==
    LET index == row_containing(dataframe, string) IN
    IF index = NO_INDEX \/ index = 0
    THEN dataframe
    ELSE [dataframe EXCEPT
            !.rows = SubSeq(@, 1, index) \o SubSeq(@, index + 2, Len(@))]

\* dataframe.head(1)
extract_top_row(dataframe) == [dataframe EXCEPT !.rows = Slice(@, 1)]

\* Mutant: the top row is left in the table.
delete_top_row_keeps_it(dataframe) == dataframe

\* dataframe.tail(-1)
delete_top_row(dataframe) == [dataframe EXCEPT !.rows = Drop(@, 1)]

-----------------------------------------------------------------------------
(* The response-block locator.  The dict it returns is modelled as the     *)
(* sequence of its items in insertion order.                               *)

response_max == 100

\* Mutant: the separator after the number is not asked for.
unique_response_locations_no_separator(response_columns, response_numbers) ==
    LET found(r) ==
            LET target_cols ==
                    SelectSeq(response_columns,
                              LAMBDA c : StartsWith(c.name, response_numbers[r]))
            IN  [key |-> response_numbers[r],
                 indices |-> [j \in 1..Len(target_cols) |-> target_cols[j].index]]
        kept == SelectSeq([r \in 1..Len(response_numbers) |-> r],
                          LAMBDA r : found(r).indices # <<>>)
    IN  [j \in 1..Len(kept) |-> found(kept[j])]

\* Mutant: the keys in the order their first columns stand in the table.
unique_response_locations_column_order(response_columns, response_numbers) ==
    LET number(c) == CHOOSE r \in 0..Len(response_numbers) :
                        IF \E q \in 1..Len(response_numbers) :
                               StartsWith(c.name, response_numbers[q] \o <<"_">>)
                        THEN r > 0 /\ StartsWith(c.name, response_numbers[r] \o <<"_">>)
                        ELSE r = 0
        first == SelectSeq([j \in 1..Len(response_columns) |-> j],
                           LAMBDA j : /\ number(response_columns[j]) # 0
                                      /\ \A i \in 1..(j - 1) :
                                            number(response_columns[i]) # number(response_columns[j]))
        found(r) ==
            LET target_cols ==
                    SelectSeq(response_columns,
                              LAMBDA c : StartsWith(c.name, response_numbers[r] \o <<"_">>))
            IN  [key |-> response_numbers[r],
                 indices |-> [j \in 1..Len(target_cols) |-> target_cols[j].index]]
    IN  [j \in 1..Len(first) |-> found(number(response_columns[first[j]]))]

unique_response_locations(response_columns, response_numbers) ==
    LET found(r) ==
            LET target_cols ==
                    SelectSeq(response_columns,
                              LAMBDA c : StartsWith(c.name, response_numbers[r] \o <<"_">>))
            IN  [key |-> response_numbers[r],
                 indices |-> [j \in 1..Len(target_cols) |-> target_cols[j].index]]
        kept == SelectSeq([r \in 1..Len(response_numbers) |-> r],
                          LAMBDA r : found(r).indices # <<>>)
    IN  [j \in 1..Len(kept) |-> found(kept[j])]

locate_response_columns(dataframe) ==
    LET numbers == [n \in 1..(response_max - 1) |-> StrInt(n)]
        cols    == dataframe.columns
        targets == SelectSeq(Range(Len(cols)),
                             LAMBDA i : \E n \in 1..Len(numbers) :
                                            StartsWith(cols[i + 1], numbers[n]))
        columns == [j \in 1..Len(targets) |->
                      [name |-> cols[targets[j] + 1], index |-> targets[j]]]
    IN  unique_response_locations(columns, numbers)

-----------------------------------------------------------------------------
(* The per-field readers of the record builder.                            *)

ELLIPSIS == <<".",".",".">>

NONE_PROVIDED == <<"N","o","n","e"," ","p","r","o","v","i","d","e","d">>

FALSE_TEXT == <<"F","a","l","s","e">>

MARKER_PROGRAMME == <<"P","r","o","g","r","a","m","m","e">>

MARKER_YEAR == <<"Y","e","a","r">>

MARKER_EVIDENCE == <<"s","u","b","m","i","t","t","i","n","g"," ","e","v","i","d","e","n","c","e"," ","w","i","t","h"," ","y","o","u","r"," ","a","p","p","l","i","c","a","t","i","o","n">>

MARKER_SUPERVISOR == <<"D","i","s","s","e","r","t","a","t","i","o","n"," ","s","u","p","e","r","v","i","s","o","r"," ","n","a","m","e">>

create_student_name(columns, row) ==
    LET cell     == Lookup(columns, row, COLNAME_PREFIX_STUDENTNAME)
        fullname == IF ~isna(cell) THEN str(cell) ELSE <<>>
    IN  Strip(fullname)

\* str(student_is_DASS(row, return_input_string = True))
student_is_DASS(columns, row) ==
    LET cell == Lookup(columns, row, COLNAME_PREFIX_DASS_REGISTERED) IN
    IF cell = Text(<<>>) \/ isna(cell) THEN FALSE_TEXT ELSE str(cell)

\* Mutant: the absent cells are not dropped.
string_parse_header_no_dropna(row, hdr, searchstring) ==
    LET strings == [i \in 1..Len(hdr.rows[1]) |-> str(hdr.rows[1][i])]
        indices == SelectSeq(Range(Len(strings)),
                             LAMBDA i : Contains(strings[i + 1], searchstring))
        years   == [j \in 1..Len(indices) |-> iloc(row, indices[j])]
    IN  IF years = <<>>
        THEN ELLIPSIS
        ELSE string_reformat_nan(Text(str(years[1])), NONE_GIVEN)

string_parse_header(row, hdr, searchstring) ==
    LET strings == [i \in 1..Len(hdr.rows[1]) |-> str(hdr.rows[1][i])]
        indices == SelectSeq(Range(Len(strings)),
                             LAMBDA i : Contains(strings[i + 1], searchstring))
        \* row.iloc[indices].dropna()
        years   == SelectSeq([j \in 1..Len(indices) |-> iloc(row, indices[j])],
                             LAMBDA c : ~isna(c))
    IN  IF years = <<>>
        THEN ELLIPSIS
        ELSE string_reformat_nan(Text(str(years[1])), NONE_GIVEN)

string_parse_division(cells) ==
    IF iloc(cells, 0) = Text(<<>>) \/ isna(iloc(cells, 0))
    THEN NONE_PROVIDED
    ELSE str(iloc(cells, 0))

-----------------------------------------------------------------------------
(* The pure functions, each applied once to an input drawn from a bounded  *)
(* set.                                                                    *)

MaxPad == 1
MaxLetters == 6
MaxDigits == 7
MaxNormLen == 3
MaxCells == 6
MaxMinimum == 7

LETTER_CYCLE == <<"N","U","R","S","A","B">>

DIGIT_CYCLE == <<"3","4","5","5","5","0","1">>

Cycle(c, n) == [i \in 1..n |-> c[((i - 1) % Len(c)) + 1]]

UnitCodeTails ==
    { <<>>,
      <<"x">>,
      <<":"," ","e","s","s","a","y">>,
      <<"g","i","b","b","e","r","i","s","h"," ","t","e","x","t"," ","h","e","r","e">> }

\* Leading blanks, a run of capitals, a run of digits, a tail, trailing blanks.
UnitCodeTexts ==
    { Spaces(l) \o Cycle(LETTER_CYCLE, a) \o Cycle(DIGIT_CYCLE, d) \o t \o Spaces(r) :
        l \in 0..MaxPad, a \in 0..MaxLetters, d \in 0..MaxDigits,
        t \in UnitCodeTails, r \in 0..MaxPad }

\* The two texts the documentation works through.
EXAMPLE_NURS == Spaces(2) \o <<"N","U","R","S","3","4","5","5","5",":"," ","e","s","s","a","y">>

EXAMPLE_GIBBERISH == <<"g","i","b","b","e","r","i","s","h"," ","t","e","x","t"," ","h","e","r","e">>

UnitCodeExamples == {EXAMPLE_NURS, EXAMPLE_GIBBERISH}

NormAlphabet == {"n", "a", "N", "A", " ", "x"}

Strings(alphabet, n) == UNION { [1..k -> alphabet] : k \in 0..n }

NormCells == {None, NaN} \cup { Text(s) : s \in Strings(NormAlphabet, MaxNormLen) }

BlockCellValues == {NaN, Text(<<>>), Text(<<"x">>)}

MaxLocatorColumns == 3

\* Column names the locator is tried on: a common question, sub-questions
\* of responses 1, 2, 7, 10 and 11, a sub-question no constant names, and
\* names that start with a number outside range(1, response_max) or with a
\* number that no "_" follows.
LocatorNames ==
    { <<"Q","1">>, <<"1","_","4">>, <<"1","1","_","4">>, <<"2","_","1">>,
      <<"1","0","_","Q","1","6","3">>, <<"7","_","x">>, <<"7","_","4">>,
      <<"1","0","0","_","4">>, <<"1","x">>, <<"0","_","4">> }

MaxHeaderColumns == 3

HEADER_YEAR_QUESTION == <<"Y","o","u","r"," ">> \o MARKER_YEAR \o <<"?">>

\* A question-text cell: one that asks for the year, one that does not,
\* and one left empty in the export.
HeaderCells == {Text(HEADER_YEAR_QUESTION), Text(<<"Q">>), NaN}

\* A response cell: nothing entered, an empty text, and two answers.
AnswerCells == {NaN, Text(<<>>), Text(<<"x">>), Text(<<"y">>)}

HeaderCalls ==
    UNION { { [fn |-> "string_parse_header",
               args |-> <<row, [columns |-> <<>>, rows |-> <<hdr>>], marker>>] :
                row \in [1..n -> AnswerCells], hdr \in [1..n -> HeaderCells],
                marker \in {MARKER_YEAR, MARKER_PROGRAMME} } :
            n \in 0..MaxHeaderColumns }

MaxColumnCells == 2

MaxCellLen == 3

\* The cells of a column of the table written: lines of "a" of any length.
ColumnTexts == Strings({"a", "\n"}, MaxCellLen)

ColumnCalls ==
    { [fn |-> "required_column_width", args |-> <<cells>>] :
        cells \in Strings(ColumnTexts, MaxColumnCells) }

MaxJunkRows == 3

\* The cell Qualtrics writes under a column in its ImportId row.
IMPORT_ID_CELL == <<"{">> \o IMPORT_ID \o <<"}">>

JunkCells == {Text(IMPORT_ID_CELL), Text(<<"x">>), NaN}

\* Tables of two columns whose rows hold the ImportId text anywhere.
JunkTables ==
    { [columns |-> << <<"A">>, <<"B">> >>, rows |-> rows] :
        rows \in Strings([1..2 -> JunkCells], MaxJunkRows) }

\* The loader keeps column names unique.
LocatorColumnLists ==
    { cs \in Strings(LocatorNames, MaxLocatorColumns) :
        \A i, j \in 1..Len(cs) : i # j => cs[i] # cs[j] }

FnCalls ==
    { [fn |-> "detect_return_unitcode", args |-> <<t>>] :
        t \in UnitCodeTexts \cup UnitCodeExamples }
    \cup
    { [fn |-> "string_reformat_nan", args |-> <<c, e>>] :
        c \in NormCells, e \in {NONE_GIVEN, DASH} }
    \cup
    { [fn |-> "minimum_responses_provided", args |-> <<cs, m>>] :
        cs \in Strings(BlockCellValues, MaxCells), m \in 0..MaxMinimum }
    \cup
    { [fn |-> "locate_response_columns", args |-> <<[columns |-> cs, rows |-> <<>>]>>] :
        cs \in LocatorColumnLists }
    \cup HeaderCalls
    \cup ColumnCalls
    \cup { [fn |-> "drop_row_by_string", args |-> <<t, IMPORT_ID>>] : t \in JunkTables }

\* The state of main()'s variables while only a function is exercised.
MainIdle ==
    /\ pc = "idle"
    /\ qualtrics = [columns |-> <<>>, rows |-> <<>>]
    /\ header = [columns |-> <<>>, rows |-> <<>>]
    /\ Q_cols = <<>>
    /\ requests = <<>>
    /\ req = <<>>
    /\ row_i = 0
    /\ key_i = 0
    /\ division = <<>>
    /\ first_iteration = TRUE
    /\ check = [field |-> "", column |-> <<>>]
    /\ exc = "none"
    /\ output = <<>>

FnInit ==
    /\ call \in FnCalls
    /\ result = <<>>
    /\ returned = FALSE
    /\ MainIdle

CallDetectReturnUnitcode ==
    /\ ~returned
    /\ call.fn = "detect_return_unitcode"
    /\ result' = detect_return_unitcode(call.args[1])
    /\ returned' = TRUE
    /\ UNCHANGED <<call, mainvars>>

CallStringReformatNan ==
    /\ ~returned
    /\ call.fn = "string_reformat_nan"
    /\ result' = string_reformat_nan(call.args[1], call.args[2])
    /\ returned' = TRUE
    /\ UNCHANGED <<call, mainvars>>

CallMinimumResponsesProvided ==
    /\ ~returned
    /\ call.fn = "minimum_responses_provided"
    /\ result' = minimum_responses_provided(call.args[1], call.args[2])
    /\ returned' = TRUE
    /\ UNCHANGED <<call, mainvars>>

CallLocateResponseColumns ==
    /\ ~returned
    /\ call.fn = "locate_response_columns"
    /\ result' = locate_response_columns(call.args[1])
    /\ returned' = TRUE
    /\ UNCHANGED <<call, mainvars>>

CallStringParseHeader ==
    /\ ~returned
    /\ call.fn = "string_parse_header"
    /\ result' = string_parse_header(call.args[1], call.args[2], call.args[3])
    /\ returned' = TRUE
    /\ UNCHANGED <<call, mainvars>>

CallRequiredColumnWidth ==
    /\ ~returned
    /\ call.fn = "required_column_width"
    /\ result' = required_column_width(call.args[1])
    /\ returned' = TRUE
    /\ UNCHANGED <<call, mainvars>>

CallDropRowByString ==
    /\ ~returned
    /\ call.fn = "drop_row_by_string"
    /\ result' = drop_row_by_string(call.args[1], call.args[2])
    /\ returned' = TRUE
    /\ UNCHANGED <<call, mainvars>>

FnNext ==
    \/ CallDetectReturnUnitcode
    \/ CallStringReformatNan
    \/ CallMinimumResponsesProvided
    \/ CallLocateResponseColumns
    \/ CallStringParseHeader
    \/ CallRequiredColumnWidth
    \/ CallDropRowByString

FnSpec == FnInit /\ [][FnNext]_vars

-----------------------------------------------------------------------------
(* The record builder (build_student_requests) and the projection          *)
(* (requests_to_spreadsheet), as main() runs them.                         *)

\* StudentRequest.__init__
StudentRequest ==
    [name |-> <<>>, ID |-> <<>>, email |-> <<>>, subdate |-> <<>>,
     programme |-> <<>>, courseyear |-> <<>>, division |-> <<>>, isPGR |-> <<>>,
     NAffected |-> <<>>, circumstances |-> <<>>, dates_affected |-> <<>>,
     DASS |-> FALSE_TEXT, semester |-> <<>>, advisor |-> <<>>, latereason |-> <<>>,
     evidence |-> <<>>, evidencesummary |-> <<>>, superinformed |-> <<>>,
     supervisor |-> <<>>, T4Visa |-> <<>>, proposedDL |-> <<>>,
     asm_codes |-> <<>>, asm_names |-> <<>>, other_asm |-> <<>>,
     asm_is_resub |-> <<>>, asm_resubdate |-> <<>>, asm_resubstatus |-> <<>>]

\* The columns read by name inside the try block, in the order of lines
\* 669-687 (create_student_name reads Q1, student_is_DASS reads Q2).
SCALAR_READS ==
    << COLNAME_PREFIX_STUDENTNAME, COLNAME_PREFIX_STUDENTID,
       COLNAME_PREFIX_EMAILADDRESS, COLNAME_PREFIX_DATESUBMITTED,
       COLNAME_PREFIX_ISPOSTGRADORRES, COLNAME_PREFIX_ASSESSMENTCOUNT,
       COLNAME_PREFIX_MITIGATIONDETAIL, COLNAME_PREFIX_PERIODAFFECTED,
       COLNAME_PREFIX_DASS_REGISTERED, COLNAME_PREFIX_ADVISORNAME,
       COLNAME_PREFIX_LATEAPPLICATION, COLNAME_PREFIX_SUPERVISCONTACT,
       COLNAME_PREFIX_TIER4_VISA, COLNAME_PREFIX_PROPOSEDDEADLINE >>

\* Mutant: the cell's text taken without string_reformat_nan.
ReadScalar_unformatted(columns, row, name) ==
    Strip(str(Lookup(columns, row, name)))

\* string_reformat_nan(str(row[name]).strip())
ReadScalar(columns, row, name) ==
    string_reformat_nan(Text(Strip(str(Lookup(columns, row, name)))), NONE_GIVEN)

\* Lines 668-687, when every column read by name is present.
ScalarFields(columns, row, hdr) ==
    [StudentRequest EXCEPT
        !.name           = create_student_name(columns, row),
        !.ID             = ReadScalar(columns, row, COLNAME_PREFIX_STUDENTID),
        !.email          = ReadScalar(columns, row, COLNAME_PREFIX_EMAILADDRESS),
        !.subdate        = ReadScalar(columns, row, COLNAME_PREFIX_DATESUBMITTED),
        !.programme      = string_parse_header(row, hdr, MARKER_PROGRAMME),
        !.courseyear     = string_parse_header(row, hdr, MARKER_YEAR),
        !.isPGR          = ReadScalar(columns, row, COLNAME_PREFIX_ISPOSTGRADORRES),
        !.NAffected      = ReadScalar(columns, row, COLNAME_PREFIX_ASSESSMENTCOUNT),
        !.circumstances  = ReadScalar(columns, row, COLNAME_PREFIX_MITIGATIONDETAIL),
        !.dates_affected = ReadScalar(columns, row, COLNAME_PREFIX_PERIODAFFECTED),
        !.DASS           = student_is_DASS(columns, row),
        !.semester       = ELLIPSIS,
        !.advisor        = ReadScalar(columns, row, COLNAME_PREFIX_ADVISORNAME),
        !.latereason     = ReadScalar(columns, row, COLNAME_PREFIX_LATEAPPLICATION),
        !.evidence       = string_parse_header(row, hdr, MARKER_EVIDENCE),
        !.superinformed  = ReadScalar(columns, row, COLNAME_PREFIX_SUPERVISCONTACT),
        !.supervisor     = string_parse_header(row, hdr, MARKER_SUPERVISOR),
        !.T4Visa         = ReadScalar(columns, row, COLNAME_PREFIX_TIER4_VISA),
        !.proposedDL     = ReadScalar(columns, row, COLNAME_PREFIX_PROPOSEDDEADLINE)]

\* Mutant: the resubmission date is not appended.
ASSESSMENT_APPENDS_without_resubdate ==
    << [list |-> "asm_codes",       suffix |-> COLNAME_SUFFIX_UNITASSESSMENT,   how |-> "unitcode"],
       [list |-> "asm_names",       suffix |-> COLNAME_SUFFIX_UNITASSESSMENT,   how |-> "given"],
       [list |-> "asm_is_resub",    suffix |-> COLNAME_SUFFIX_RESUBMISSION,     how |-> "given"],
       [list |-> "other_asm",       suffix |-> COLNAME_SUFFIX_OTHERINFORMATION, how |-> "dash"],
       [list |-> "asm_resubstatus", suffix |-> COLNAME_SUFFIX_SUBSTATUS,        how |-> "given"] >>

\* The six appends of lines 733-738, in order: the list, the sub-question
\* whose offset is read, and how the cell's text is cleaned.
ASSESSMENT_APPENDS ==
    << [list |-> "asm_codes",       suffix |-> COLNAME_SUFFIX_UNITASSESSMENT,   how |-> "unitcode"],
       [list |-> "asm_names",       suffix |-> COLNAME_SUFFIX_UNITASSESSMENT,   how |-> "given"],
       [list |-> "asm_is_resub",    suffix |-> COLNAME_SUFFIX_RESUBMISSION,     how |-> "given"],
       [list |-> "other_asm",       suffix |-> COLNAME_SUFFIX_OTHERINFORMATION, how |-> "dash"],
       [list |-> "asm_resubdate",   suffix |-> COLNAME_SUFFIX_RESUB_FIRST,      how |-> "given"],
       [list |-> "asm_resubstatus", suffix |-> COLNAME_SUFFIX_SUBSTATUS,        how |-> "given"] >>

AppendedValue(how, cell) ==
    CASE how = "unitcode" -> detect_return_unitcode(str(cell))
      [] how = "dash"     -> string_reformat_nan(Text(str(cell)), DASH)
      [] OTHER            -> string_reformat_nan(Text(str(cell)), NONE_GIVEN)

\* Appends k.. of ASSESSMENT_APPENDS; cells.iloc[offset] raises IndexError
\* when the response has no cell at that offset, and the appends already
\* made stay made.
RECURSIVE AppendAssessment(_, _, _)
AppendAssessment(r, cells, k) ==
    IF k > Len(ASSESSMENT_APPENDS) THEN [req |-> r, raised |-> FALSE]
    ELSE LET a      == ASSESSMENT_APPENDS[k]
             offset == RESPONSE_COLUMN_INDICES[a.suffix]
         IN  IF offset >= Len(cells)
             THEN [req |-> r, raised |-> TRUE]
             ELSE AppendAssessment(
                      [r EXCEPT ![a.list] = Append(@, AppendedValue(a.how, iloc(cells, offset)))],
                      cells, k + 1)

\* row.iloc[Q_cols[key]]
BlockCells(row, indices) == [j \in 1..Len(indices) |-> iloc(row, indices[j])]

\* main(), line 1047.
DropJunkRow ==
    /\ pc = "main"
    /\ qualtrics' = drop_row_by_string(qualtrics, IMPORT_ID)
    /\ pc' = "build"
    /\ UNCHANGED <<fnvars, header, Q_cols, requests, req, row_i, key_i,
                   division, first_iteration, check, exc, output>>

\* build_student_requests, lines 646-652.
SplitHeaderAndLocate ==
    /\ pc = "build"
    /\ header' = extract_top_row(qualtrics)
    /\ qualtrics' = delete_top_row(qualtrics)
    /\ Q_cols' = locate_response_columns(delete_top_row(qualtrics))
    /\ requests' = <<>>
    /\ row_i' = 0
    /\ pc' = "row"
    /\ UNCHANGED <<fnvars, req, key_i, division, first_iteration, check, exc, output>>

\* Lines 666-702 for the next row: the fields read by name, or the KeyError
\* handler.  A key with no entry in COLUMN_KEY_ERROR_MESSAGES raises a
\* second KeyError inside the handler, which nothing catches.
ExtractScalars ==
    /\ pc = "row"
    /\ row_i < Len(qualtrics.rows)
    /\ LET row     == qualtrics.rows[row_i + 1]
           missing == SelectSeq(SCALAR_READS, LAMBDA k : ~HasColumn(qualtrics.columns, k))
       IN  IF missing = <<>>
           THEN /\ req' = ScalarFields(qualtrics.columns, row, header)
                /\ division' = <<>>
                /\ first_iteration' = TRUE
                /\ key_i' = 0
                /\ pc' = "blocks"
                /\ UNCHANGED <<check, exc>>
           ELSE IF missing[1] \in DOMAIN COLUMN_KEY_ERROR_MESSAGES
           THEN /\ check' = COLUMN_KEY_ERROR_MESSAGES[missing[1]]
                /\ pc' = "exited"
                /\ UNCHANGED <<req, division, first_iteration, key_i, exc>>
           ELSE /\ exc' = "KeyError"
                /\ pc' = "raised"
                /\ UNCHANGED <<req, division, first_iteration, key_i, check>>
    /\ UNCHANGED <<fnvars, qualtrics, header, Q_cols, requests, row_i, output>>

\* Mutant: the division is read from every filled response.
ProcessBlock_last_wins ==
    /\ pc = "blocks"
    /\ key_i < Len(Q_cols)
    /\ LET cells == BlockCells(qualtrics.rows[row_i + 1], Q_cols[key_i + 1].indices) IN
       IF ~minimum_responses_provided(cells, MINIMUM_REQUIRED_RESPONSES)
       THEN /\ key_i' = key_i + 1
            /\ UNCHANGED <<req, division, first_iteration, pc, exc>>
       ELSE LET done == AppendAssessment(req, cells, 1) IN
            /\ division' = string_parse_division(cells)
            /\ first_iteration' = FALSE
            /\ req' = done.req
            /\ IF done.raised
               THEN exc' = "IndexError" /\ pc' = "raised" /\ UNCHANGED key_i
               ELSE key_i' = key_i + 1 /\ UNCHANGED <<pc, exc>>
    /\ UNCHANGED <<fnvars, qualtrics, header, Q_cols, requests, row_i, check, output>>

\* One iteration of the loop of lines 704-738.
ProcessBlock ==
    /\ pc = "blocks"
    /\ key_i < Len(Q_cols)
    /\ LET cells == BlockCells(qualtrics.rows[row_i + 1], Q_cols[key_i + 1].indices) IN
       IF ~minimum_responses_provided(cells, MINIMUM_REQUIRED_RESPONSES)
       THEN /\ key_i' = key_i + 1
            /\ UNCHANGED <<req, division, first_iteration, pc, exc>>
       ELSE LET done == AppendAssessment(req, cells, 1) IN
            /\ division' = IF first_iteration THEN string_parse_division(cells) ELSE division
            /\ first_iteration' = FALSE
            /\ req' = done.req
            /\ IF done.raised
               THEN exc' = "IndexError" /\ pc' = "raised" /\ UNCHANGED key_i
               ELSE key_i' = key_i + 1 /\ UNCHANGED <<pc, exc>>
    /\ UNCHANGED <<fnvars, qualtrics, header, Q_cols, requests, row_i, check, output>>

\* Mutant: the request put in front of the list.
AppendRequest_prepend ==
    /\ pc = "blocks"
    /\ key_i = Len(Q_cols)
    /\ requests' = <<[req EXCEPT !.division = division]>> \o requests
    /\ row_i' = row_i + 1
    /\ pc' = "row"
    /\ UNCHANGED <<fnvars, qualtrics, header, Q_cols, req, key_i, division,
                   first_iteration, check, exc, output>>

\* Mutant: a request without assessments is not kept.
AppendRequest_skip_empty ==
    /\ pc = "blocks"
    /\ key_i = Len(Q_cols)
    /\ requests' = IF req.asm_codes = <<>> THEN requests
                   ELSE Append(requests, [req EXCEPT !.division = division])
    /\ row_i' = row_i + 1
    /\ pc' = "row"
    /\ UNCHANGED <<fnvars, qualtrics, header, Q_cols, req, key_i, division,
                   first_iteration, check, exc, output>>

\* Mutant: the six lists are shared by every request, as lists created
\* once for the class would be.
AppendRequest_shared_lists ==
    /\ pc = "blocks"
    /\ key_i = Len(Q_cols)
    /\ requests' = Append([k \in 1..Len(requests) |->
                              [requests[k] EXCEPT !.asm_codes = req.asm_codes,
                                                  !.asm_names = req.asm_names,
                                                  !.other_asm = req.other_asm,
                                                  !.asm_is_resub = req.asm_is_resub,
                                                  !.asm_resubdate = req.asm_resubdate,
                                                  !.asm_resubstatus = req.asm_resubstatus]],
                          [req EXCEPT !.division = division])
    /\ row_i' = row_i + 1
    /\ pc' = "row"
    /\ UNCHANGED <<fnvars, qualtrics, header, Q_cols, req, key_i, division,
                   first_iteration, check, exc, output>>

\* Lines 743-749.
AppendRequest ==
    /\ pc = "blocks"
    /\ key_i = Len(Q_cols)
    /\ requests' = Append(requests, [req EXCEPT !.division = division])
    /\ row_i' = row_i + 1
    /\ pc' = "row"
    /\ UNCHANGED <<fnvars, qualtrics, header, Q_cols, req, key_i, division,
                   first_iteration, check, exc, output>>

\* Line 751.
ReturnRequests ==
    /\ pc = "row"
    /\ row_i = Len(qualtrics.rows)
    /\ pc' = "returned"
    /\ UNCHANGED <<fnvars, qualtrics, header, Q_cols, requests, req, row_i, key_i,
                   division, first_iteration, check, exc, output>>

RECURSIVE Join(_, _)
\* sep.join(list)
Join(list, sep) ==
    IF list = <<>> THEN <<>>
    ELSE IF Len(list) = 1 THEN list[1]
    ELSE list[1] \o sep \o Join(Tail(list), sep)

\* Mutant: the entries joined with a blank.
NEWLINE_as_blank == <<" ">>

NEWLINE == <<"\n">>

PENDING_OUTCOME == <<"P","e","n","d","i","n","g"," ","O","u","t","c","o","m","e",".",".",".">>

PENDING_SEND == <<"P","e","n","d","i","n","g"," ","S","e","n","d",".",".",".">>

\* Mutant: the send columns filled from the request.
OutputRow_send_from_request(r) ==
    "Date Submitted" :> r.subdate
    @@ "Full Name" :> r.name
    @@ "University Email" :> r.email
    @@ "Student ID Number" :> r.ID
    @@ "Are you applying for a postgraduate dissertation or research project?" :> r.isPGR
    @@ "No. Assessments/Exams" :> r.NAffected
    @@ "Division" :> r.division
    @@ "Programme" :> r.programme
    @@ "Year" :> r.courseyear
    @@ "Unit Code" :> Join(r.asm_codes, NEWLINE)
    @@ "Assessment name and submission date" :> Join(r.asm_names, NEWLINE)
    @@ "Is this a resubmission (including date)?" :> Join(r.asm_is_resub, NEWLINE)
    @@ "Other Assessment Info." :> Join(r.other_asm, NEWLINE)
    @@ "Submission Status" :> Join(r.asm_resubstatus, NEWLINE)
    @@ "Academic Advisor(s)" :> r.advisor
    @@ "Reason for Mitigation" :> r.circumstances
    @@ "Period Affected" :> r.dates_affected
    @@ "Late Application - Reason" :> r.latereason
    @@ "DASS Registration" :> r.DASS
    @@ "Evidence Declaration" :> r.evidence
    @@ "Supervisor Aware?" :> r.superinformed
    @@ "Supervisor Name" :> r.supervisor
    @@ "Tier 4 Visa" :> r.T4Visa
    @@ "Proposed New Deadline" :> r.proposedDL
    @@ "Evidence Summary" :> r.evidencesummary
    @@ "Outcome" :> PENDING_OUTCOME
    @@ "Email Type" :> ELLIPSIS
    @@ "To Be Sent By (Initials)..." :> PENDING_OUTCOME
    @@ "Notes" :> ELLIPSIS
    @@ "Panel Notes" :> ELLIPSIS
    @@ "Outcome Sent to Student" :> r.email
    @@ "Outcome Sent Date" :> r.subdate

\* The row of the column dictionary (lines 801-857) one request gives.
OutputRow(r) ==
    "Date Submitted" :> r.subdate
    @@ "Full Name" :> r.name
    @@ "University Email" :> r.email
    @@ "Student ID Number" :> r.ID
    @@ "Are you applying for a postgraduate dissertation or research project?" :> r.isPGR
    @@ "No. Assessments/Exams" :> r.NAffected
    @@ "Division" :> r.division
    @@ "Programme" :> r.programme
    @@ "Year" :> r.courseyear
    @@ "Unit Code" :> Join(r.asm_codes, NEWLINE)
    @@ "Assessment name and submission date" :> Join(r.asm_names, NEWLINE)
    @@ "Is this a resubmission (including date)?" :> Join(r.asm_is_resub, NEWLINE)
    @@ "Other Assessment Info." :> Join(r.other_asm, NEWLINE)
    @@ "Submission Status" :> Join(r.asm_resubstatus, NEWLINE)
    @@ "Academic Advisor(s)" :> r.advisor
    @@ "Reason for Mitigation" :> r.circumstances
    @@ "Period Affected" :> r.dates_affected
    @@ "Late Application - Reason" :> r.latereason
    @@ "DASS Registration" :> r.DASS
    @@ "Evidence Declaration" :> r.evidence
    @@ "Supervisor Aware?" :> r.superinformed
    @@ "Supervisor Name" :> r.supervisor
    @@ "Tier 4 Visa" :> r.T4Visa
    @@ "Proposed New Deadline" :> r.proposedDL
    @@ "Evidence Summary" :> r.evidencesummary
    @@ "Outcome" :> PENDING_OUTCOME
    @@ "Email Type" :> ELLIPSIS
    @@ "To Be Sent By (Initials)..." :> PENDING_OUTCOME
    @@ "Notes" :> ELLIPSIS
    @@ "Panel Notes" :> ELLIPSIS
    @@ "Outcome Sent to Student" :> PENDING_SEND
    @@ "Outcome Sent Date" :> PENDING_SEND

\* main(), lines 1057-1061: the requests written out as one table.
requests_to_spreadsheet ==
    /\ pc = "returned"
    /\ output' = [k \in 1..Len(requests) |-> OutputRow(requests[k])]
    /\ pc' = "written"
    /\ UNCHANGED <<fnvars, qualtrics, header, Q_cols, requests, req, row_i, key_i,
                   division, first_iteration, check, exc>>

-----------------------------------------------------------------------------
(* The tables main() is run on: a bounded family of Qualtrics exports.     *)
(* The loader has made the column names unique (a repeated name gets a     *)
(* ".1" suffix), and a cell nobody filled in is NaN.                       *)

MaxRows == 2

COLNAME_SUPERVISORNAME == <<"Q","1",".","1">>

COLNAME_PROVIDESEVIDENCE == <<"Q","3",".","1">>

\* The columns of the common questions, in the order the form asks them.
COMMON_COLUMNS ==
    << COLNAME_PREFIX_DATESUBMITTED, COLNAME_PREFIX_STUDENTNAME,
       COLNAME_PREFIX_DASS_REGISTERED, COLNAME_PREFIX_EMAILADDRESS,
       COLNAME_PREFIX_STUDENTID, COLNAME_PREFIX_ISPOSTGRADORRES,
       COLNAME_PREFIX_ASSESSMENTCOUNT, COLNAME_PREFIX_ADVISORNAME,
       COLNAME_PREFIX_MITIGATIONDETAIL, COLNAME_PREFIX_PERIODAFFECTED,
       COLNAME_PREFIX_LATEAPPLICATION, COLNAME_PROVIDESEVIDENCE,
       COLNAME_PREFIX_SUPERVISCONTACT, COLNAME_SUPERVISORNAME,
       COLNAME_PREFIX_TIER4_VISA, COLNAME_PREFIX_PROPOSEDDEADLINE >>

SUFFIXES ==
    << COLNAME_SUFFIX_DIVISION, COLNAME_SUFFIX_PROGRAMME, COLNAME_SUFFIX_COURSEYEAR,
       COLNAME_SUFFIX_UNITASSESSMENT, COLNAME_SUFFIX_OTHERINFORMATION,
       COLNAME_SUFFIX_RESUBMISSION, COLNAME_SUFFIX_RESUB_FIRST,
       COLNAME_SUFFIX_RESUB_SECOND, COLNAME_SUFFIX_SUBSTATUS >>

\* The nine columns of response k, in the form's order.
FullBlock(k) == [j \in 1..Len(SUFFIXES) |-> StrInt(k) \o SUFFIXES[j]]

\* A response of which the export holds four columns only.
PartialBlock(k) ==
    << StrInt(k) \o COLNAME_SUFFIX_UNITASSESSMENT, StrInt(k) \o COLNAME_SUFFIX_RESUBMISSION,
       StrInt(k) \o COLNAME_SUFFIX_RESUB_FIRST, StrInt(k) \o COLNAME_SUFFIX_SUBSTATUS >>

BlockLayouts ==
    { <<>>,
      FullBlock(2) \o FullBlock(10),
      FullBlock(10) \o FullBlock(2),
      PartialBlock(6) }

Without(seq, x) == SelectSeq(seq, LAMBDA y : y # x)

\* The digits a column name starts with, and what follows them.
KeyOf(col) == SubSeq(col, 1, RunLen(col, DIGITS))

SuffixOf(col) == Drop(col, RunLen(col, DIGITS))

IsBlockColumn(col) == RunLen(col, DIGITS) > 0

\* What a student can do with one response: the sub-questions answered.
FillPatterns == {"none", "full", "two", "three", "four", "nounit", "nodiv", "blank"}

Answered(fill, suffix) ==
    CASE fill = "none"   -> FALSE
      [] fill = "two"    -> suffix \in {COLNAME_SUFFIX_UNITASSESSMENT, COLNAME_SUFFIX_SUBSTATUS}
      [] fill = "three"  -> suffix \in {COLNAME_SUFFIX_DIVISION, COLNAME_SUFFIX_PROGRAMME,
                                         COLNAME_SUFFIX_COURSEYEAR}
      [] fill = "four"   -> suffix \in {COLNAME_SUFFIX_DIVISION, COLNAME_SUFFIX_PROGRAMME,
                                         COLNAME_SUFFIX_COURSEYEAR, COLNAME_SUFFIX_UNITASSESSMENT}
      [] fill = "nounit" -> suffix # COLNAME_SUFFIX_UNITASSESSMENT
      [] fill = "nodiv"  -> suffix # COLNAME_SUFFIX_DIVISION
      [] OTHER           -> TRUE

\* The answer typed into a column: the unit and assessment for a "_4"
\* column, and a text that names its column everywhere else.
AnswerText(col) ==
    IF IsBlockColumn(col) /\ SuffixOf(col) = COLNAME_SUFFIX_UNITASSESSMENT
    THEN <<"A","B","1">> \o KeyOf(col) \o <<":"," ","e","s","s","a","y">>
    ELSE <<"v">> \o col

\* A response row: how the common questions were answered, and the fill
\* pattern of the responses numbered below 10 and from 10 up.
ResponseCell(p, col) ==
    IF IsBlockColumn(col)
    THEN LET fill == IF Len(KeyOf(col)) = 1 THEN p.low ELSE p.high IN
         IF fill = "blank" THEN Text(<<>>)
         ELSE IF Answered(fill, SuffixOf(col)) THEN Text(AnswerText(col)) ELSE NaN
    ELSE CASE p.common = "nan"   -> NaN
           [] p.common = "empty" -> Text(<<>>)
           [] p.common = "blank" -> Text(<<" ">>)
           [] OTHER              -> Text(AnswerText(col))

RowPatterns ==
    { [common |-> "text",  low |-> "full",   high |-> "full"],
      [common |-> "text",  low |-> "none",   high |-> "full"],
      [common |-> "text",  low |-> "two",    high |-> "four"],
      [common |-> "text",  low |-> "three",  high |-> "full"],
      [common |-> "text",  low |-> "none",   high |-> "none"],
      [common |-> "text",  low |-> "nounit", high |-> "none"],
      [common |-> "text",  low |-> "nodiv",  high |-> "full"],
      [common |-> "text",  low |-> "blank",  high |-> "none"],
      [common |-> "nan",   low |-> "full",   high |-> "none"],
      [common |-> "empty", low |-> "four",   high |-> "two"],
      [common |-> "blank", low |-> "none",   high |-> "none"] }

FewRowPatterns ==
    { [common |-> "text", low |-> "full", high |-> "none"],
      [common |-> "nan",  low |-> "none", high |-> "none"] }

\* The question text above a column.
HeaderCell(col) ==
    IF IsBlockColumn(col) /\ SuffixOf(col) = COLNAME_SUFFIX_PROGRAMME THEN Text(MARKER_PROGRAMME)
    ELSE IF IsBlockColumn(col) /\ SuffixOf(col) = COLNAME_SUFFIX_COURSEYEAR THEN Text(MARKER_YEAR)
    ELSE IF col = COLNAME_PROVIDESEVIDENCE THEN Text(MARKER_EVIDENCE)
    ELSE IF col = COLNAME_SUPERVISORNAME THEN Text(MARKER_SUPERVISOR)
    ELSE Text(<<"Q">>)

HeaderRow(columns) == [i \in 1..Len(columns) |-> HeaderCell(columns[i])]

JunkRow(columns) == [i \in 1..Len(columns) |-> Text(IMPORT_ID)]

ResponseRow(columns, p) == [i \in 1..Len(columns) |-> ResponseCell(p, columns[i])]

\* An export: the question-text row, the ImportId row Qualtrics adds (when
\* junk), and one row per pattern of patterns.
Export(columns, junk, patterns) ==
    [columns |-> columns,
     rows |-> << HeaderRow(columns) >>
              \o (IF junk THEN << JunkRow(columns) >> ELSE <<>>)
              \o [k \in 1..Len(patterns) |-> ResponseRow(columns, patterns[k])]]

Tables ==
    \* every common column present
    { Export(COMMON_COLUMNS \o b, junk, ps) :
        b \in BlockLayouts, junk \in BOOLEAN, ps \in Strings(RowPatterns, MaxRows) }
    \cup
    \* one column that is read by name absent
    { Export(Without(COMMON_COLUMNS, SCALAR_READS[m]) \o FullBlock(2), TRUE, ps) :
        m \in 1..Len(SCALAR_READS), ps \in Strings(FewRowPatterns, MaxRows) }
    \cup
    \* a file with column names and nothing below them
    { [columns |-> COMMON_COLUMNS \o FullBlock(2), rows |-> <<>>] }

Init ==
    /\ call = [fn |-> "main", args |-> <<>>]
    /\ result = <<>>
    /\ returned = FALSE
    /\ pc = "main"
    /\ qualtrics \in Tables
    /\ header = [columns |-> <<>>, rows |-> <<>>]
    /\ Q_cols = <<>>
    /\ requests = <<>>
    /\ req = <<>>
    /\ row_i = 0
    /\ key_i = 0
    /\ division = <<>>
    /\ first_iteration = TRUE
    /\ check = [field |-> "", column |-> <<>>]
    /\ exc = "none"
    /\ output = <<>>

Next ==
    \/ DropJunkRow
    \/ SplitHeaderAndLocate
    \/ ExtractScalars
    \/ ProcessBlock
    \/ AppendRequest
    \/ ReturnRequests
    \/ requests_to_spreadsheet

Spec == Init /\ [][Next]_vars

\* Properties of the functions and of the request builder.
-----------------------------------------------------------------------------
(* The unit-code pattern as the documentation states it: 1 to 5 capitals   *)
(* at the start of the text, immediately followed by 2 to 6 digits.        *)

\* The length of the unit code a text starts with, 0 when it starts with none.
UnitCodePrefixLen(t) ==
    LET letters == RunLen(t, UPPERCASE)
        digits  == RunLen(Drop(t, letters), DIGITS)
    IN  IF letters \in 1..5 /\ digits >= 2 THEN letters + Min(digits, 6) ELSE 0

IsPrefixOfLen(r, t, n) == Len(r) = n /\ \A i \in 1..n : r[i] = t[i]

DetectReturned == returned /\ call.fn = "detect_return_unitcode"

\* C1: for every text whose trimmed form starts with 1-5 capitals immediately
\* followed by 2-6 digits, detect_return_unitcode returns exactly that
\* letters+digits prefix and nothing after it.
CE_C1_MatchedPrefixOnly ==
    DetectReturned =>
        LET t == Strip(call.args[1])
            n == UnitCodePrefixLen(t)
        IN  n > 0 => IsPrefixOfLen(result, t, n)

\* C10: for every text whose trimmed form does not start with the unit-code
\* pattern, detect_return_unitcode returns the first 9 characters of the
\* trimmed text (all of it when it is shorter).
Thm_C10_SalvageFirstNine ==
    DetectReturned =>
        LET t == Strip(call.args[1])
        IN  UnitCodePrefixLen(t) = 0 => IsPrefixOfLen(result, t, Min(9, Len(t)))

Wit_C10_SalvageFirstNine ==
    /\ DetectReturned
    /\ UnitCodePrefixLen(Strip(call.args[1])) = 0
    /\ Len(Strip(call.args[1])) > 9
    /\ Len(call.args[1]) > Len(Strip(call.args[1]))
    /\ Len(result) = 9

NanSpellings == { <<x, y, z>> : x \in {"n", "N"}, y \in {"a", "A"}, z \in {"n", "N"} }

ReformatReturned == returned /\ call.fn = "string_reformat_nan"

\* C9: string_reformat_nan returns the fallback for a null/absent cell, the
\* empty string and every spelling of 'nan', and returns every other string
\* unchanged.
Thm_C9_NormalizeFallback ==
    ReformatReturned =>
        LET c == call.args[1]
            missing == \/ c.kind \in {"nan", "none"}
                       \/ c.text = <<>>
                       \/ c.text \in NanSpellings
        IN  result = IF missing THEN call.args[2] ELSE c.text

Wit_C9_NormalizeFallback ==
    /\ ReformatReturned
    /\ call.args[1] = Text(<<"N","a","N">>)
    /\ result = NONE_GIVEN

MinimumReturned == returned /\ call.fn = "minimum_responses_provided"

\* C5: minimum_responses_provided is true iff the number of cells that are
\* not absent is at least min(minimum, number of cells); so a block whose
\* cells are all present is reported filled whatever the minimum.
Thm_C5_FilledIffClampedMinimum ==
    MinimumReturned =>
        LET cells   == call.args[1]
            present == { i \in 1..Len(cells) : cells[i].kind = "str" }
        IN  /\ result = (Cardinality(present) >= Min(call.args[2], Len(cells)))
            /\ (Cardinality(present) = Len(cells) => result = TRUE)

Wit_C5_FilledIffClampedMinimum ==
    /\ MinimumReturned
    /\ call.args[2] > Len(call.args[1])
    /\ Len(call.args[1]) > 0
    /\ \A i \in 1..Len(call.args[1]) : call.args[1][i].kind = "str"
    /\ result = TRUE

-----------------------------------------------------------------------------
(* The record builder's claims.  Once the header row is split off, row k   *)
(* of qualtrics is the response row request k was built from.              *)

Located == pc \notin {"idle", "main", "build"}

AllReadColumnsPresent == \A i \in 1..Len(SCALAR_READS) : HasColumn(qualtrics.columns, SCALAR_READS[i])

\* C2: for every located block, a sub-question is resolved iff the column
\* named key + its suffix is present, and it is resolved to that column.
CE_C2_RoleResolvedBySuffix ==
    Located =>
        \A b \in 1..Len(Q_cols) : \A suffix \in DOMAIN RESPONSE_COLUMN_INDICES :
            LET offset  == RESPONSE_COLUMN_INDICES[suffix]
                indices == Q_cols[b].indices
                name    == Q_cols[b].key \o suffix
            IN  /\ (offset < Len(indices)) <=> HasColumn(qualtrics.columns, name)
                /\ offset < Len(indices) => qualtrics.columns[indices[offset + 1] + 1] = name

\* C3: when every column read by name is present, the run neither exits
\* nor raises, whatever the cells hold and however many columns a block has.
CE_C3_OnlyStructuralErrorsHalt ==
    AllReadColumnsPresent => pc \notin {"exited", "raised"}

\* The cells of block b in response row k that are not absent.
PresentCells(k, b) ==
    { j \in 1..Len(Q_cols[b].indices) :
        iloc(qualtrics.rows[k], Q_cols[b].indices[j]).kind = "str" }

\* C4: every request built holds one assessment entry for each located
\* block with at least 4 cells present in its row, and none for the others.
Thm_C4_EntriesEqualFilledBlocks ==
    Located =>
        \A k \in 1..Len(requests) :
            Len(requests[k].asm_codes) =
                Cardinality({ b \in 1..Len(Q_cols) : Cardinality(PresentCells(k, b)) >= 4 })

Wit_C4_EntriesEqualFilledBlocks ==
    /\ Located
    /\ \E k \in 1..Len(requests) :
        /\ Len(requests[k].asm_codes) = 1
        /\ \E b \in 1..Len(Q_cols) : Cardinality(PresentCells(k, b)) = 2
        /\ \E b \in 1..Len(Q_cols) : Cardinality(PresentCells(k, b)) = 4

\* C6: when a column with an entry in COLUMN_KEY_ERROR_MESSAGES is absent,
\* build_student_requests never returns and no table is written.
CE_C6_AbsentColumnAborts ==
    (\E name \in DOMAIN COLUMN_KEY_ERROR_MESSAGES : ~HasColumn(qualtrics.columns, name))
        => pc \notin {"returned", "written"}

\* C7: the message shown on exit names the field and the expected column.
CE_C7_DiagnosticNamesFieldAndColumn ==
    pc = "exited" =>
        /\ check.field # ""
        /\ check.column # <<>>
        /\ ~HasColumn(qualtrics.columns, check.column)

\* The fields read from one cell each, and the column of each.
SCALAR_FIELDS ==
    "ID" :> COLNAME_PREFIX_STUDENTID @@ "email" :> COLNAME_PREFIX_EMAILADDRESS
    @@ "subdate" :> COLNAME_PREFIX_DATESUBMITTED @@ "isPGR" :> COLNAME_PREFIX_ISPOSTGRADORRES
    @@ "NAffected" :> COLNAME_PREFIX_ASSESSMENTCOUNT
    @@ "circumstances" :> COLNAME_PREFIX_MITIGATIONDETAIL
    @@ "dates_affected" :> COLNAME_PREFIX_PERIODAFFECTED @@ "advisor" :> COLNAME_PREFIX_ADVISORNAME
    @@ "latereason" :> COLNAME_PREFIX_LATEAPPLICATION
    @@ "superinformed" :> COLNAME_PREFIX_SUPERVISCONTACT @@ "T4Visa" :> COLNAME_PREFIX_TIER4_VISA
    @@ "proposedDL" :> COLNAME_PREFIX_PROPOSEDDEADLINE

MissingOrEmpty(k, name) ==
    Lookup(qualtrics.columns, qualtrics.rows[k], name) \in {NaN, Text(<<>>)}

CE_C11_WorkedExamples ==
    DetectReturned =>
        /\ call.args[1] = EXAMPLE_NURS =>
              result = <<"N","U","R","S","3","4","5","5","5">>
        /\ call.args[1] = EXAMPLE_GIBBERISH =>
              result = <<"g","i","b","b","e","r","i","s">>

\* C11 as amended: '  NURS34555: essay' gives 'NURS34555', and 'gibberish
\* text here' gives its first 9 characters, 'gibberish'.
Thm_C11_WorkedExamplesNine ==
    DetectReturned =>
        /\ call.args[1] = EXAMPLE_NURS =>
              result = <<"N","U","R","S","3","4","5","5","5">>
        /\ call.args[1] = EXAMPLE_GIBBERISH =>
              result = <<"g","i","b","b","e","r","i","s","h">>

Wit_C11_WorkedExamplesNine ==
    /\ DetectReturned
    /\ call.args[1] = EXAMPLE_GIBBERISH
    /\ Len(result) = 9

-----------------------------------------------------------------------------
(* The locator's claims.                                                   *)

LocateReturned == returned /\ call.fn = "locate_response_columns"

RegisteredKeys == { result[b].key : b \in 1..Len(result) }

\* C12: a key is registered iff some column is named that key followed by
\* one of the nine sub-question suffixes; a key whose columns all carry
\* other suffixes is left out.
CE_C12_RegisteredIffRecognizedSuffix ==
    LocateReturned =>
        \A k \in 1..(response_max - 1) :
            StrInt(k) \in RegisteredKeys
                <=> \E suffix \in DOMAIN RESPONSE_COLUMN_INDICES :
                        HasColumn(call.args[1].columns, StrInt(k) \o suffix)

DigitValue(c) == CHOOSE d \in 0..9 : DigitChar(d) = c

\* The number a run of digits writes.
RECURSIVE IntOf(_)
IntOf(s) == IF s = <<>> THEN 0 ELSE 10 * IntOf(SubSeq(s, 1, Len(s) - 1)) + DigitValue(s[Len(s)])

\* The response a column name belongs to, read off its leading digits: the
\* number they write, when it is written without leading zeros, lies in
\* 1..response_max - 1 and is followed by "_"; 0 for no response.
LeadingBlock(col) ==
    LET digits == KeyOf(col)
        k      == IntOf(digits)
    IN  IF /\ digits # <<>>
           /\ StrInt(k) = digits
           /\ k \in 1..(response_max - 1)
           /\ Len(col) > Len(digits)
           /\ col[Len(digits) + 1] = "_"
        THEN k ELSE 0

\* C13: a column index is in block k iff its name starts with the number k
\* of 1..response_max - 1 followed by "_"; so every key found is such a
\* number, a key is found whatever numbers are missing below it, and no
\* index is in two blocks.
Thm_C13_GroupedByLeadingInteger ==
    LocateReturned =>
        LET cols == call.args[1].columns IN
        /\ \A b \in 1..Len(result) :
              /\ IntOf(result[b].key) \in 1..(response_max - 1)
              /\ StrInt(IntOf(result[b].key)) = result[b].key
              /\ \A i \in 0..(Len(cols) - 1) :
                    (\E j \in 1..Len(result[b].indices) : result[b].indices[j] = i)
                        <=> LeadingBlock(cols[i + 1]) = IntOf(result[b].key)
        /\ \A i \in 1..Len(cols) :
              LeadingBlock(cols[i]) # 0 => StrInt(LeadingBlock(cols[i])) \in RegisteredKeys
        /\ \A b1, b2 \in 1..Len(result) :
              b1 # b2 =>
                /\ result[b1].key # result[b2].key
                /\ \A j1 \in 1..Len(result[b1].indices), j2 \in 1..Len(result[b2].indices) :
                      result[b1].indices[j1] # result[b2].indices[j2]

Wit_C13_GroupedByLeadingInteger ==
    /\ LocateReturned
    /\ HasColumn(call.args[1].columns, <<"1","0","0","_","4">>)
    /\ Len(result) = 2
    /\ result[1].key = <<"1">>
    /\ result[2].key = <<"1","1">>
    /\ Len(result[1].indices) = 1

-----------------------------------------------------------------------------
(* The responses of a row, read off the table itself: the numbers its      *)
(* column names start with, and the cells under the columns of a number.   *)

BlockNumbers == { LeadingBlock(qualtrics.columns[i]) : i \in 1..Len(qualtrics.columns) } \ {0}

\* The cells of response n in response row k, of any kind.
CellsOfBlock(k, n) ==
    { i \in 1..Len(qualtrics.columns) : LeadingBlock(qualtrics.columns[i]) = n }

\* Response n of row k passes the fill-in test: at least 4 cells are not
\* absent (all of them, when the response has fewer than 4 columns).
BlockIsFilled(k, n) ==
    Cardinality({ i \in CellsOfBlock(k, n) : qualtrics.rows[k][i].kind = "str" })
        >= Min(MINIMUM_REQUIRED_RESPONSES, Cardinality(CellsOfBlock(k, n)))

FilledBlocks(k) == { n \in BlockNumbers : BlockIsFilled(k, n) }

\* The numbers of a set, smallest first.
RECURSIVE Ascending(_)
Ascending(S) ==
    IF S = {} THEN <<>>
    ELSE LET least == CHOOSE x \in S : \A y \in S : x <= y
         IN  <<least>> \o Ascending(S \ {least})

\* The cell of row k under the column named number n + suffix.
SubQuestionCell(k, n, suffix) ==
    Lookup(qualtrics.columns, qualtrics.rows[k], StrInt(n) \o suffix)

\* C14: the assessment entries of every request are those of the row's
\* filled responses in ascending order of response number, wherever the
\* columns of a response stand in the table.
Thm_C14_EntriesInAscendingKeyOrder ==
    Located =>
        \A k \in 1..Len(requests) :
            LET order == Ascending(FilledBlocks(k)) IN
            /\ Len(requests[k].asm_names) = Len(order)
            /\ \A e \in 1..Len(order) :
                  requests[k].asm_names[e] =
                      string_reformat_nan(
                          Text(str(SubQuestionCell(k, order[e], COLNAME_SUFFIX_UNITASSESSMENT))),
                          NONE_GIVEN)

\* Column a stands before column b in the table.
StandsBefore(a, b) ==
    \E i, j \in 1..Len(qualtrics.columns) :
        i < j /\ qualtrics.columns[i] = a /\ qualtrics.columns[j] = b

Wit_C14_EntriesInAscendingKeyOrder ==
    /\ Located
    /\ StandsBefore(<<"1","0","_","4">>, <<"2","_","4">>)
    /\ \E k \in 1..Len(requests) :
          /\ Len(requests[k].asm_names) = 2
          /\ requests[k].asm_names[1] = AnswerText(<<"2","_","4">>)
          /\ requests[k].asm_names[2] = AnswerText(<<"1","0","_","4">>)

-----------------------------------------------------------------------------
(* The header-driven reader's claims.                                      *)

ParseHeaderReturned == returned /\ call.fn = "string_parse_header"

\* The positions whose question text contains the marker, in order.
MatchedPositions ==
    SelectSeq([i \in 1..Len(call.args[1]) |-> i],
              LAMBDA i : Contains(str(call.args[2].rows[1][i]), call.args[3]))

\* Of those, the positions whose cell is neither absent nor empty.
AnsweredPositions ==
    SelectSeq(MatchedPositions,
              LAMBDA i : call.args[1][i].kind = "str" /\ call.args[1][i].text # <<>>)

\* C15: when a matched cell is neither absent nor empty, the result is the
\* first such cell's value, whatever absent or empty cells precede it.
CE_C15_FirstNonEmptyMatch ==
    ParseHeaderReturned =>
        (AnsweredPositions # <<>> => result = call.args[1][AnsweredPositions[1]].text)

\* C16: when no question text contains the marker, or every matched cell
\* is absent, the result is '...'.
Thm_C16_MissGivesEllipsis ==
    ParseHeaderReturned =>
        ((\A j \in 1..Len(MatchedPositions) : call.args[1][MatchedPositions[j]] = NaN)
            => result = ELLIPSIS)

Wit_C16_MissGivesEllipsis ==
    /\ ParseHeaderReturned
    /\ Len(MatchedPositions) = 2
    /\ \A j \in 1..Len(MatchedPositions) : call.args[1][MatchedPositions[j]] = NaN
    /\ \E i \in 1..Len(call.args[1]) : call.args[1][i] = Text(<<"x">>)
    /\ result = ELLIPSIS

\* C17: the division of every request whose row has a filled response is
\* what the division cell of the lowest-numbered filled response gives
\* ('None provided' when that cell is absent or empty); the division cells
\* of the other responses, filled or not, have no part in it.
Thm_C17_FirstFilledBlockWins ==
    Located =>
        \A k \in 1..Len(requests) :
            FilledBlocks(k) # {} =>
                LET first == Ascending(FilledBlocks(k))[1]
                    cell  == SubQuestionCell(k, first, COLNAME_SUFFIX_DIVISION)
                IN  requests[k].division =
                        IF cell \in {NaN, Text(<<>>)} THEN NONE_PROVIDED ELSE cell.text

Wit_C17_FirstFilledBlockWins ==
    /\ Located
    /\ \E k \in 1..Len(requests) :
          /\ FilledBlocks(k) = {10}
          /\ SubQuestionCell(k, 2, COLNAME_SUFFIX_DIVISION).kind = "str"
          /\ requests[k].division = AnswerText(<<"1","0","_","1">>)
    /\ \E k \in 1..Len(requests) :
          /\ FilledBlocks(k) = {2, 10}
          /\ requests[k].division = NONE_PROVIDED
          /\ SubQuestionCell(k, 10, COLNAME_SUFFIX_DIVISION).kind = "str"

-----------------------------------------------------------------------------
(* The projection's claims.                                                *)

Written == pc = "written"

\* C18: the table written has one row per request and one request per
\* response row, in the order of the response rows: row k carries the ID
\* and the division that response row k gives.
Thm_C18_OneOutputRowPerResponseRow ==
    /\ Located =>
          /\ Len(requests) <= Len(qualtrics.rows)
          /\ \A k \in 1..Len(requests) :
                requests[k].ID = ReadScalar(qualtrics.columns, qualtrics.rows[k],
                                            COLNAME_PREFIX_STUDENTID)
    /\ Written =>
          /\ Len(output) = Len(requests)
          /\ Len(requests) = Len(qualtrics.rows)
          /\ \A k \in 1..Len(output) :
                /\ output[k]["Student ID Number"] =
                      ReadScalar(qualtrics.columns, qualtrics.rows[k], COLNAME_PREFIX_STUDENTID)
                /\ FilledBlocks(k) = {} => output[k]["Division"] = <<>>
                /\ FilledBlocks(k) # {} =>
                      output[k]["Division"] \in
                          { NONE_PROVIDED,
                            SubQuestionCell(k, Ascending(FilledBlocks(k))[1],
                                            COLNAME_SUFFIX_DIVISION).text }

Wit_C18_OneOutputRowPerResponseRow ==
    /\ Written
    /\ Len(output) = 2
    /\ Len(requests[1].asm_codes) = 2
    /\ Len(requests[2].asm_codes) = 0
    /\ output[1]["Student ID Number"] # output[2]["Student ID Number"]
    /\ output[1]["Division"] # output[2]["Division"]

\* The cells that hold one line per assessment, and the list each is made of.
MULTI_VALUED ==
    "Unit Code" :> "asm_codes"
    @@ "Assessment name and submission date" :> "asm_names"
    @@ "Is this a resubmission (including date)?" :> "asm_is_resub"
    @@ "Other Assessment Info." :> "other_asm"
    @@ "Submission Status" :> "asm_resubstatus"

\* C19: every multi-valued cell is the request's values in their order
\* with one line break between neighbours: the value itself for one entry,
\* the first, a line break and the second for two.
Thm_C19_JoinedWithLineBreak ==
    Written =>
        \A k \in 1..Len(output) : \A title \in DOMAIN MULTI_VALUED :
            LET values == requests[k][MULTI_VALUED[title]]
                cell   == output[k][title]
            IN  /\ Len(values) = 0 => cell = <<>>
                /\ Len(values) = 1 => cell = values[1]
                /\ Len(values) = 2 => cell = values[1] \o <<"\n">> \o values[2]

Wit_C19_JoinedWithLineBreak ==
    /\ Written
    /\ \E k \in 1..Len(output) :
          /\ Len(requests[k].asm_codes) = 2
          /\ requests[k].asm_codes[1] # requests[k].asm_codes[2]
          /\ output[k]["Unit Code"] =
                requests[k].asm_codes[1] \o <<"\n">> \o requests[k].asm_codes[2]
    /\ \E k \in 1..Len(output) :
          /\ Len(requests[k].asm_codes) = 1
          /\ ~Contains(output[k]["Unit Code"], <<"\n">>)

\* Some cell of a response of row k is not absent.
SomeBlockCellPresent(k) ==
    \E i \in 1..Len(qualtrics.columns) :
        LeadingBlock(qualtrics.columns[i]) # 0 /\ qualtrics.rows[k][i].kind = "str"

\* C20: a response row none of whose responses is filled still gives a
\* request, with no assessment entries, and a row of the table written,
\* with empty multi-valued cells; and it does not end the run.
Thm_C20_NoFilledBlockStillEmitted ==
    /\ Located =>
          \A k \in 1..Len(requests) :
              FilledBlocks(k) = {} =>
                  \A title \in DOMAIN MULTI_VALUED : requests[k][MULTI_VALUED[title]] = <<>>
    /\ pc = "raised" /\ exc = "IndexError" => FilledBlocks(row_i + 1) # {}
    /\ Written =>
          /\ Len(output) = Len(qualtrics.rows)
          /\ \A k \in 1..Len(output) :
                FilledBlocks(k) = {} =>
                    \A title \in DOMAIN MULTI_VALUED : output[k][title] = <<>>

Wit_C20_NoFilledBlockStillEmitted ==
    /\ Written
    /\ \E k \in 1..Len(output) :
          /\ FilledBlocks(k) = {}
          /\ SomeBlockCellPresent(k)
          /\ output[k]["Unit Code"] = <<>>
          /\ output[k]["Student ID Number"] # NONE_GIVEN

-----------------------------------------------------------------------------
(* The row loop's claims.                                                  *)

\* What a step of the builder does to the table and to the requests.
HeaderRowSplitOff ==
    /\ (pc = "build" /\ pc' = "row") =>
          IF qualtrics.rows = <<>>
          THEN header'.rows = <<>> /\ qualtrics'.rows = <<>>
          ELSE /\ header'.rows = <<qualtrics.rows[1]>>
               /\ qualtrics'.rows = Tail(qualtrics.rows)
               /\ Len(qualtrics'.rows) = Len(qualtrics.rows) - 1
    /\ pc' = "returned" => Len(requests') = Len(qualtrics'.rows)

\* C21: the top row of the table handed to build_student_requests is split
\* off as the question-text row and the rows below it are the response
\* rows; the requests returned are as many as those, one fewer than the
\* rows of a table that has any.
Thm_C21_HeaderRowSplitOff == [][HeaderRowSplitOff]_vars

Wit_C21_HeaderRowSplitOff ==
    /\ pc = "returned"
    /\ Len(requests) = 2
    /\ header.rows = <<HeaderRow(qualtrics.columns)>>
    /\ \A k \in 1..Len(requests) : requests[k].ID # HeaderCell(COLNAME_PREFIX_STUDENTID).text

\* What a step of the row loop leaves alone.
RowsLeaveBlocksAndEarlierRequests ==
    pc \in {"row", "blocks"} =>
        /\ Q_cols' = Q_cols
        /\ Len(requests') >= Len(requests)
        /\ \A k \in 1..Len(requests) : requests'[k] = requests[k]

\* C22: while the rows are processed the located blocks stay as they were
\* found, and a request once appended is never changed or removed.
Thm_C22_RowsLeaveBlocksAndEarlierRequests == [][RowsLeaveBlocksAndEarlierRequests]_vars

Wit_C22_RowsLeaveBlocksAndEarlierRequests ==
    /\ pc = "row"
    /\ Len(Q_cols) = 2
    /\ Len(requests) = 2
    /\ Len(requests[1].asm_codes) = 1
    /\ Len(requests[2].asm_codes) = 2

\* The columns left for the review, and the text each starts with.
REVIEW_PLACEHOLDERS ==
    "Outcome" :> <<"P","e","n","d","i","n","g"," ","O","u","t","c","o","m","e",".",".",".">>
    @@ "Email Type" :> <<".",".",".">>
    @@ "To Be Sent By (Initials)..." :> <<"P","e","n","d","i","n","g"," ","O","u","t","c","o","m","e",".",".",".">>
    @@ "Notes" :> <<".",".",".">>
    @@ "Panel Notes" :> <<".",".",".">>
    @@ "Outcome Sent to Student" :> <<"P","e","n","d","i","n","g"," ","S","e","n","d",".",".",".">>
    @@ "Outcome Sent Date" :> <<"P","e","n","d","i","n","g"," ","S","e","n","d",".",".",".">>

\* C23: in every row of the table written, each of the seven review
\* columns holds its fixed text, whatever the cells of the input hold; so
\* two runs on tables of as many rows write the same review columns.
Thm_C23_ReviewColumnsConstant ==
    Written =>
        \A k \in 1..Len(output) : \A title \in DOMAIN REVIEW_PLACEHOLDERS :
            output[k][title] = REVIEW_PLACEHOLDERS[title]

Wit_C23_ReviewColumnsConstant ==
    /\ Written
    /\ Len(output) = 2
    /\ output[1]["University Email"] # output[2]["University Email"]
    /\ output[1]["Outcome Sent Date"] = output[2]["Outcome Sent Date"]
    /\ output[1]["Notes"] = ELLIPSIS

-----------------------------------------------------------------------------
(* The column width's claim.                                               *)

WidthReturned == returned /\ call.fn = "required_column_width"

\* The lengths of the stretches of a text that hold no line break.
LineLengths(text) ==
    { j - i + 1 : i \in 1..Len(text), j \in 1..Len(text) } \cap
    { n \in 1..Len(text) :
        \E i \in 1..(Len(text) - n + 1) : \A q \in i..(i + n - 1) : text[q] # "\n" }

\* C24: required_column_width is the length of the longest single line
\* found in any cell of the column, and not the length of the longest
\* cell nor the width of the last cell.
Thm_C24_WidthIsLongestLine ==
    WidthReturned =>
        result = SetMax({0} \cup UNION { LineLengths(call.args[1][i]) :
                                            i \in 1..Len(call.args[1]) })

Wit_C24_WidthIsLongestLine ==
    /\ WidthReturned
    /\ call.args[1] = << <<"a","a">>, <<"a","\n","a">> >>
    /\ result = 2

-----------------------------------------------------------------------------
(* The junk-row removal's claim.                                           *)

DropReturned == returned /\ call.fn = "drop_row_by_string"

\* Some text cell of the row contains the string.
RowHolds(row, string) ==
    \E j \in 1..Len(row) : row[j].kind = "str" /\ Contains(row[j].text, string)

\* C25: the table drop_row_by_string returns is the table it was given
\* without the rows that hold the string in any cell, the other rows kept
\* in their order.
CE_C25_NoJunkRowLeft ==
    DropReturned =>
        result.rows = SelectSeq(call.args[1].rows, LAMBDA row : ~RowHolds(row, call.args[2]))

-----------------------------------------------------------------------------
(* Claims on what the fill-in test counts and on what a request holds.     *)

\* The normaliser gives its fallback for the cell.
NormalizesToFallback(cell) ==
    string_reformat_nan(cell, DASH) = DASH /\ cell # Text(DASH)

\* C26: minimum_responses_provided counts as provided exactly the cells
\* that string_reformat_nan does not replace by its fallback; a response
\* whose cells are all empty strings has none provided.
CE_C26_FillTestAgreesWithNormalizer ==
    MinimumReturned =>
        LET cells    == call.args[1]
            provided == { i \in 1..Len(cells) : ~NormalizesToFallback(cells[i]) }
        IN  result = (Cardinality(provided) >= Min(call.args[2], Len(cells)))

PER_ASSESSMENT_LISTS ==
    {"asm_codes", "asm_names", "other_asm", "asm_is_resub", "asm_resubdate", "asm_resubstatus"}

SameLengths(r) ==
    \A a, b \in PER_ASSESSMENT_LISTS : Len(r[a]) = Len(r[b])

\* C27: the six per-assessment lists of the request being built, between
\* two responses, and of every request appended have one length, and
\* entry e of each list is read from the e-th filled response of the row.
Thm_C27_ParallelLists ==
    /\ pc = "blocks" => SameLengths(req)
    /\ Located =>
          \A k \in 1..Len(requests) :
              LET order == Ascending(FilledBlocks(k))
                  given(n, suffix) ==
                      string_reformat_nan(Text(str(SubQuestionCell(k, n, suffix))), NONE_GIVEN)
              IN  /\ SameLengths(requests[k])
                  /\ Len(requests[k].asm_codes) = Len(order)
                  /\ \A e \in 1..Len(order) :
                        /\ requests[k].asm_codes[e] =
                              detect_return_unitcode(
                                  str(SubQuestionCell(k, order[e], COLNAME_SUFFIX_UNITASSESSMENT)))
                        /\ requests[k].asm_names[e] = given(order[e], COLNAME_SUFFIX_UNITASSESSMENT)
                        /\ requests[k].asm_is_resub[e] = given(order[e], COLNAME_SUFFIX_RESUBMISSION)
                        /\ requests[k].asm_resubdate[e] = given(order[e], COLNAME_SUFFIX_RESUB_FIRST)
                        /\ requests[k].asm_resubstatus[e] = given(order[e], COLNAME_SUFFIX_SUBSTATUS)
                        /\ requests[k].other_asm[e] =
                              string_reformat_nan(
                                  Text(str(SubQuestionCell(k, order[e], COLNAME_SUFFIX_OTHERINFORMATION))),
                                  DASH)

Wit_C27_ParallelLists ==
    /\ pc = "blocks"
    /\ key_i = 1
    /\ Len(Q_cols) = 2
    /\ Len(req.asm_codes) = 1
    /\ Len(requests) = 1
    /\ Len(requests[1].asm_resubdate) = 2
    /\ requests[1].asm_resubdate[1] # requests[1].asm_resubdate[2]

\* C28: the unit code appended for a filled response whose unit and
\* assessment cell is absent is a placeholder, as the assessment name
\* appended from the same cell is; the text 'nan' is never a unit code.
CE_C28_NoRawNanUnitCode ==
    Located =>
        \A k \in 1..Len(requests) : \A e \in 1..Len(requests[k].asm_codes) :
            /\ requests[k].asm_codes[e] # NAN_TEXT
            /\ (e <= Len(requests[k].asm_names) /\ requests[k].asm_names[e] = NONE_GIVEN)
                  => requests[k].asm_codes[e] \in {NONE_GIVEN, NONE_PROVIDED, DASH, ELLIPSIS}

\* C29: the division of every request appended is not empty, also when
\* no response of the row is filled.
CE_C29_DivisionNeverEmpty ==
    Located => \A k \in 1..Len(requests) : requests[k].division # <<>>

\* The scalar fields the builder assigns.
POPULATED_SCALARS ==
    {"name", "ID", "email", "subdate", "programme", "courseyear", "division", "isPGR",
     "NAffected", "circumstances", "dates_affected", "DASS", "semester", "advisor",
     "latereason", "evidence", "superinformed", "supervisor", "T4Visa", "proposedDL"}

\* The columns of the table written that are not review placeholders.
DATA_TITLES(k) == DOMAIN output[k] \ DOMAIN REVIEW_PLACEHOLDERS

\* C30: every per-assessment list and every scalar field the builder
\* fills is a column of the table written: some column of row k holds the
\* list's values line by line, and some column holds the field's value.
CE_C30_NoPerAssessmentDataLost ==
    Written =>
        \A k \in 1..Len(output) :
            /\ \A list \in PER_ASSESSMENT_LISTS :
                  requests[k][list] # <<>> =>
                      \E title \in DATA_TITLES(k) :
                          split(output[k][title], "\n") = requests[k][list]
            /\ \A field \in POPULATED_SCALARS :
                  \E title \in DATA_TITLES(k) : output[k][title] = requests[k][field]

=============================================================================
